---- MODULE Spec2Model ----
(***************************************************************************)
(* The vertical-profile feature pipeline of ptype-physical                 *)
(* (src/ptype/inference.py, driven by src/scripts/run_inference.py):       *)
(*   df_flatten -> convert_and_interpolate -> classifier -> grid_predictions*)
(*                                                                         *)
(* Numbers.  Field values, heights and height-level configurations are     *)
(* integers.  An interpolated value is an exact rational <<n, d>> in       *)
(* lowest terms with d > 0 (<<0, 0>> stands for a non-finite float).       *)
(* A pressure level is a record [int, frac]: its whole part and its tenths,*)
(* so that int(p) is a real truncation.  A class probability is an integer *)
(* number of percent.                                                      *)
(***************************************************************************)
EXTENDS Integers, Sequences, FiniteSets, TLC

VARIABLES
    pc,              \* position of main(): which stage has returned
    err,             \* the exception that ended the run ("" when none)
    ds,              \* the xarray dataset returned by load_data
    df,              \* the flat profile table (pandas DataFrame)
    surface_data,    \* surface_vars: name -> flattened surface field
    pressure_levels, \* the pressure_levels argument of convert_and_interpolate
    cfg,             \* config["height_levels"]: low, high, interval
    nworkers,        \* numba threads running the prange loop of interpolate
    sched,           \* how prange hands the rows to the threads
    cai,             \* locals of convert_and_interpolate and interpolate
    all_data,        \* the matrix convert_and_interpolate returns
    preds,           \* the classifier's prediction table
    gridded,         \* the dataset grid_predictions returns
    nextId           \* next fresh object identity

vars == <<pc, err, ds, df, surface_data, pressure_levels, cfg, nworkers, sched,
          cai, all_data, preds, gridded, nextId>>

----------------------------------------------------------------------------
(* Bounds of the model *)

MaxRows == 2
MaxCols == 2
MaxWorkers == 2

----------------------------------------------------------------------------
(* Generic helpers *)

Abs(a) == IF a < 0 THEN -a ELSE a

RECURSIVE GCD(_, _)
GCD(a, b) == IF b = 0 THEN a ELSE GCD(b, a % b)

\* A float64 value as an exact rational in lowest terms; d = 0 is non-finite.
Rat(n, d) ==
    IF d = 0 THEN <<0, 0>>
    ELSE LET s == IF d < 0 THEN -1 ELSE 1
             g == GCD(Abs(n), Abs(d))
         IN  <<(s * n) \div g, (s * d) \div g>>

Float(i) == <<i, 1>>

\* 0-based element of a 1-based sequence
At(a, i) == a[i + 1]

----------------------------------------------------------------------------
(* The names the code uses *)

\* load_data: df_flatten(nwp_dataset, ['t', 'dpt', 'u', 'v', 'hgt_above_sfc'])
VarsP == <<"t", "dpt", "u", "v", "hgt_above_sfc">>
\* convert_and_interpolate
variables == <<"t", "dpt", "u", "v">>
surface_variables == <<"t2m", "d2m", "u10", "v10">>
\* grid_predictions
ClassNames == <<"rain", "snow", "icep", "frzr">>
CategoricalVars == {"crain", "csnow", "cicep", "cfrzr"}
DropCoords == {"isobaricInhPa", "heightAboveGround", "surface"}

\* int(p) of a pressure level
IntOf(p) == p.int

\* f"{v}_{int(p)}"
ColName(v, p) == <<v, IntOf(p)>>

----------------------------------------------------------------------------
(* Inputs: the datasets, configurations and predictions the runs draw from *)

Lev(i, f) == [int |-> i, frac |-> f]

\* isobaricInhPa coordinates in their native order: descending pressure,
\* ascending pressure, one level, five levels, and sub-hPa levels.
LevelLists ==
    { <<Lev(1000, 0), Lev(850, 0), Lev(700, 0)>>,
      <<Lev(850, 0), Lev(1000, 0)>>,
      <<Lev(500, 0)>>,
      <<Lev(1000, 0), Lev(925, 0), Lev(850, 0), Lev(700, 0), Lev(500, 0)>>,
      <<Lev(0, 7), Lev(0, 4)>> }

Seeds == 0 .. 3

\* hgt_above_sfc at level index l of the point (r, c): ascending profiles,
\* ascending ones that meet the targets and end below them, descending and
\* zigzag ones.
HeightAt(seed, r, c, l) ==
    LET k == (seed + (r - 1) + 2 * (c - 1)) % 4
    IN  CASE k = 0 -> 1000 * l - 500
          [] k = 1 -> 250 * l - 500
          [] k = 2 -> 3000 - 1000 * l
          [] OTHER -> IF l % 2 = 1 THEN 500 * l ELSE 500 * l - 1000

\* variable number v at level index l of the point (r, c)
ValueAt(v, seed, r, c, l) ==
    LET k == (seed + (r - 1) + 2 * (c - 1) + v - 1) % 3
    IN  (CASE k = 0 -> 15 - 5 * l
           [] k = 1 -> l * l + v
           [] OTHER -> 7 * v - 3 * l)
        + 100 * (r - 1) + 20 * (c - 1)

\* surface variable number s at the point (r, c)
SurfaceAt(s, seed, r, c) == 270 + 10 * s + 3 * (r - 1) + (c - 1) + seed

Dataset(R, C, levels, seed) ==
    [ id     |-> 1,
      R      |-> R,
      C      |-> C,
      levels |-> levels,
      vars   |-> [v \in {VarsP[i] : i \in 1 .. Len(VarsP)} |->
                    [l \in 1 .. Len(levels) |-> [r \in 1 .. R |-> [c \in 1 .. C |->
                        IF v = "hgt_above_sfc" THEN HeightAt(seed, r, c, l)
                        ELSE ValueAt(CHOOSE i \in 1 .. 4 : variables[i] = v,
                                     seed, r, c, l)]]]],
      sfc    |-> [s \in {surface_variables[i] : i \in 1 .. 4}
                         \cup (IF seed % 2 = 0 THEN {"crain"} ELSE {}) |->
                    [r \in 1 .. R |-> [c \in 1 .. C |->
                        IF s = "crain" THEN (r + c + seed) % 2
                        ELSE SurfaceAt(CHOOSE i \in 1 .. 4 : surface_variables[i] = s,
                                       seed, r, c)]]],
      ml     |-> <<>>,
      dtype  |-> [n \in {"latitude", "longitude", "isobaricInhPa", "heightAboveGround",
                         "surface", "valid_time"}
                        \cup (IF seed % 2 = 0 THEN {"crain"} ELSE {}) |->
                    IF n = "valid_time" THEN "datetime64"
                    ELSE IF n = "crain" THEN "float32" ELSE "float64"],
      coords |-> {"latitude", "longitude", "isobaricInhPa", "heightAboveGround",
                  "surface", "valid_time"} ]

\* Dataset whose variable u lies on a grid of its own, of R2 rows and C2
\* columns (dimensions named apart from y and x)
DatasetOn(R, C, levels, seed, R2, C2) ==
    [Dataset(R, C, levels, seed) EXCEPT
        !.vars["u"] = [l \in 1 .. Len(levels) |-> [r \in 1 .. R2 |-> [c \in 1 .. C2 |->
                          ValueAt(3, seed, r, c, l)]]]]

\* pressure_levels arguments a caller can pair with a table flattened on
\* `levels`: the same list, the list without its last level, and the list
\* with one level more
LevelArgs(levels) ==
    { levels, SubSeq(levels, 1, Len(levels) - 1), Append(levels, Lev(300, 0)) }

HL(lo, hi, step) == [low |-> lo, high |-> hi, interval |-> step]

\* config["height_levels"]
Configs ==
    { HL(0, 3000, 250), HL(0, 3000, 1000), HL(0, 3000, 700), HL(500, 500, 250),
      HL(1000, 0, 500), HL(0, 1000, 0), HL(1000, 0, -500), HL(0, 1000, -500) }

\* Class probabilities in percent, in the order rain, snow, icep, frzr.
ProbVectors ==
    << <<50, 50, 0, 0>>, <<10, 20, 30, 40>>, <<25, 25, 25, 25>>,
       <<0, 40, 40, 20>>, <<70, 10, 10, 10>> >>

NoTable == [id |-> 0, columns |-> <<>>, values |-> <<>>]
NoArray == [id |-> 0, values |-> <<>>]
NoPreds == [id |-> 0, values |-> <<>>, ncols |-> 0]
NoError == [kind |-> "", at |-> ""]
NoSurface == [id |-> 0, values |-> <<>>]
NoDataset == [id |-> 0]
NoLocals == [stage |-> "none"]

----------------------------------------------------------------------------
(* numpy / pandas / xarray primitives, as the code uses them *)

\* a.reshape(-1) or a.flatten() of a 2-D array: C order
Ravel(grid, R, C) ==
    [k \in 1 .. R * C |-> grid[((k - 1) \div C) + 1][((k - 1) % C) + 1]]

\* ds[v].sel(isobaricInhPa=p).values
Sel(d, v, p) == d.vars[v][CHOOSE l \in 1 .. Len(d.levels) : d.levels[l] = p]

\* np.concatenate(arrays, axis=1): the columns of each array, array after array
RECURSIVE ConcatColumns(_, _)
ConcatColumns(arrays, n) ==
    IF Len(arrays) = 0 THEN [i \in 1 .. n |-> <<>>]
    ELSE LET rest == ConcatColumns(Tail(arrays), n)
         IN  [i \in 1 .. n |-> Head(arrays)[i] \o rest[i]]

\* FlattenOrder with the loops exchanged: level-major, variable-minor
FlattenOrderLevelMajor(varsP, levels) ==
    [k \in 1 .. Len(varsP) * Len(levels) |->
        <<varsP[((k - 1) % Len(varsP)) + 1], levels[((k - 1) \div Len(varsP)) + 1]>>]

\* The (variable, level) pairs in the order of the loops of df_flatten:
\* for v in varsP: for p in ds[vertical_level_name].values
FlattenOrder(varsP, levels) ==
    [k \in 1 .. Len(varsP) * Len(levels) |->
        <<varsP[((k - 1) \div Len(levels)) + 1], levels[((k - 1) % Len(levels)) + 1]>>]

\* pressure_lev_data of df_flatten: for each (variable, level) in loop order,
\* ds[v].sel(isobaricInhPa=p).values.reshape(-1, 1), the slice on its own grid
PressureLevData(d, varsP) ==
    LET order == FlattenOrder(varsP, d.levels)
    IN  [k \in 1 .. Len(order) |->
            LET grid == Sel(d, order[k][1], order[k][2])
                flat == Ravel(grid, Len(grid), Len(grid[1]))
            IN  [i \in 1 .. Len(flat) |-> <<flat[i]>>]]

\* np.concatenate(arrays, axis=1) raises ValueError unless the arrays have the
\* same number of rows
ConcatFails(arrays) ==
    \E j, k \in 1 .. Len(arrays) : Len(arrays[j]) # Len(arrays[k])

\* df_flatten(ds, varsP): a new DataFrame with one column per (variable, level)
DfFlatten(d, varsP, id) ==
    LET order == FlattenOrder(varsP, d.levels)
        pressure_lev_data == PressureLevData(d, varsP)
    IN  [ id      |-> id,
          columns |-> [k \in 1 .. Len(order) |-> ColName(order[k][1], order[k][2])],
          values  |-> ConcatColumns(pressure_lev_data, Len(pressure_lev_data[1])) ]

\* surface_vars of load_data: nwp_dataset[x].values.flatten() per surface name
SurfaceVars(d, id) ==
    [ id     |-> id,
      values |-> [s \in DOMAIN d.sfc |-> Ravel(d.sfc[s], d.R, d.C)] ]

\* positions of the columns of a DataFrame that carry the label `name`
Matching(columns, name) ==
    SelectSeq([k \in 1 .. Len(columns) |-> k], LAMBDA k : columns[k] = name)

\* pandas' indexer of data[names]: for each requested label, every column
\* that carries it
RECURSIVE ColIndexer(_, _)
ColIndexer(columns, names) ==
    IF Len(names) = 0 THEN <<>>
    ELSE Matching(columns, Head(names)) \o ColIndexer(columns, Tail(names))

\* data[names] raises KeyError when a requested label is no column
MissingLabel(columns, names) ==
    \E j \in 1 .. Len(names) : Len(Matching(columns, names[j])) = 0

\* data[names].values: a new 2-D array
SelectCols(table, names) ==
    LET idx == ColIndexer(table.columns, names)
    IN  [i \in 1 .. Len(table.values) |->
            [j \in 1 .. Len(idx) |-> table.values[i][idx[j]]]]

\* len(np.arange(start, stop, step)) for integers, step # 0
ArangeLen(start, stop, step) ==
    IF step > 0
    THEN IF stop > start THEN (stop - start + step - 1) \div step ELSE 0
    ELSE IF stop < start THEN (start - stop + (-step) - 1) \div (-step) ELSE 0

\* np.arange(start, stop, step)
Arange(start, stop, step) ==
    [k \in 1 .. ArangeLen(start, stop, step) |-> start + (k - 1) * step]

\* HeightLevels with the stop of a half-open range: high is left out
HeightLevelsExclusive(c) == Arange(c.low, c.high, c.interval)

\* height_levels of convert_and_interpolate
HeightLevels(c) == Arange(c.low, c.high + c.interval, c.interval)

\* cols[var] = [f"{var}_{int(x)}" for x in pressure_levels]
Cols(var, levels) == [k \in 1 .. Len(levels) |-> ColName(var, levels[k])]

\* np.zeros(shape=(n, h))
Zeros(n, h) == [i \in 1 .. n |-> [k \in 1 .. h |-> Float(0)]]

----------------------------------------------------------------------------
(* np.interp as numba compiles it (a port of numpy's arr_interp) *)

\* the bisection that ends binary_search_with_guess
RECURSIVE Bisect(_, _, _, _)
Bisect(key, arr, imin, imax) ==
    IF imin < imax
    THEN LET imid == imin + ((imax - imin) \div 2)
         IN  IF key >= At(arr, imid)
             THEN Bisect(key, arr, imid + 1, imax)
             ELSE Bisect(key, arr, imin, imid)
    ELSE imin - 1

\* the linear search binary_search_with_guess uses when len <= 4
RECURSIVE LinearSearch(_, _, _, _)
LinearSearch(key, arr, len, i) ==
    IF i < len /\ key >= At(arr, i)
    THEN LinearSearch(key, arr, len, i + 1)
    ELSE i - 1

\* binary_search_with_guess(key, arr, len, guess): 0-based index j with
\* arr[j] <= key < arr[j+1] when arr ascends; -1 below arr[0], len above arr[len-1]
BinarySearchWithGuess(key, arr, len, guess0) ==
    IF key > At(arr, len - 1) THEN len
    ELSE IF key < At(arr, 0) THEN -1
    ELSE IF len <= 4 THEN LinearSearch(key, arr, len, 1)
    ELSE
      LET g1    == IF guess0 > len - 3 THEN len - 3 ELSE guess0
          guess == IF g1 < 1 THEN 1 ELSE g1
      IN  IF key < At(arr, guess)
          THEN IF key < At(arr, guess - 1)
               THEN Bisect(key, arr,
                           IF guess > 8 /\ key >= At(arr, guess - 8)
                           THEN guess - 8 ELSE 0,
                           guess - 1)
               ELSE guess - 1
          ELSE IF key < At(arr, guess + 1) THEN guess
          ELSE IF key < At(arr, guess + 2) THEN guess + 1
          ELSE Bisect(key, arr, guess + 2,
                      IF guess < len - 8 - 1 /\ key < At(arr, guess + 8)
                      THEN guess + 8 ELSE len)

\* slope * (x - xp[j]) + fp[j], slope == (fp[j+1] - fp[j]) / (xp[j+1] - xp[j])
InterpValue(x, xp, fp, j) ==
    LET dxj == At(xp, j + 1) - At(xp, j)
        dyj == At(fp, j + 1) - At(fp, j)
    IN  IF dxj = 0
        THEN IF dyj = 0 THEN Float(At(fp, j)) ELSE Rat(1, 0)
        ELSE Rat(dyj * (x - At(xp, j)) + At(fp, j) * dxj, dxj)

\* InterpAt that extends the end segments instead of clamping
InterpAtExtrapolate(x, xp, fp, j) ==
    LET lenxp == Len(xp)
    IN  IF j = -1 THEN InterpValue(x, xp, fp, 0)
        ELSE IF j >= lenxp - 1 /\ At(xp, lenxp - 1) # x
             THEN InterpValue(x, xp, fp, lenxp - 2)
        ELSE IF At(xp, j) = x THEN Float(At(fp, j))
        ELSE InterpValue(x, xp, fp, j)

\* one element of the result, for the index j the search returned
InterpAt(x, xp, fp, j) ==
    LET lenxp == Len(xp)
    IN  IF j = -1 THEN Float(At(fp, 0))
        ELSE IF j = lenxp THEN Float(At(fp, lenxp - 1))
        ELSE IF j = lenxp - 1 THEN Float(At(fp, j))
        ELSE IF At(xp, j) = x THEN Float(At(fp, j))
        ELSE InterpValue(x, xp, fp, j)

\* the loop over x; every search starts from the index the last one found
RECURSIVE InterpLoop(_, _, _, _, _)
InterpLoop(x, xp, fp, i, j) ==
    IF i > Len(x) THEN <<>>
    ELSE LET jj == BinarySearchWithGuess(x[i], xp, Len(xp), j)
         IN  <<InterpAt(x[i], xp, fp, jj)>> \o InterpLoop(x, xp, fp, i + 1, jj)

\* np.interp raises ValueError on these
InterpFails(xp, fp) == Len(xp) = 0 \/ Len(xp) # Len(fp)

\* np.interp(x=x, xp=xp, fp=fp)
NpInterp(x, xp, fp) ==
    IF Len(xp) = 1 THEN [k \in 1 .. Len(x) |-> Float(fp[1])]
    ELSE InterpLoop(x, xp, fp, 1, 0)

----------------------------------------------------------------------------
(* The prange loop of interpolate *)

\* RowsOf with blocks of n div nw rows: the remainder is handed to no thread
RowsOfNoRemainder(w, nw, n, sch) ==
    [k \in 1 .. (n \div nw) |-> (w - 1) * (n \div nw) + k]

\* The rows numba hands to thread w of nw, in the order the thread runs them:
\* contiguous blocks, or rows dealt out in turn.
RowsOf(w, nw, n, sch) ==
    IF sch = "block"
    THEN [k \in 1 .. ((w * n) \div nw) - (((w - 1) * n) \div nw) |->
              (((w - 1) * n) \div nw) + k]
    ELSE SelectSeq([i \in 1 .. n |-> i], LAMBDA i : (i - 1) % nw = w - 1)

\* arr[i] = row
WriteRow(arr, i, row) == [arr EXCEPT ![i] = row]

\* SurfaceOverride that keeps the interpolated column
NoSurfaceOverride(arr, sfc) == arr

\* height_interp_data[:, 0] = surface_data[sv]
SurfaceOverride(arr, sfc) ==
    [i \in 1 .. Len(arr) |-> [arr[i] EXCEPT ![1] = Float(sfc[i])]]

\* interpolate(x, y, height_levels) run by one thread, row after row
RECURSIVE InterpolateFrom(_, _, _, _, _)
InterpolateFrom(arr, x, y, height_levels, i) ==
    IF i > Len(arr) THEN arr
    ELSE InterpolateFrom(WriteRow(arr, i, NpInterp(height_levels, x[i], y[i])),
                         x, y, height_levels, i + 1)

Interpolate(x, y, height_levels) ==
    InterpolateFrom(Zeros(Len(x), Len(height_levels)), x, y, height_levels, 1)

----------------------------------------------------------------------------
(* grid_predictions *)

\* row.argmax(): the first index (0-based) that holds the maximum
RECURSIVE ArgMaxFrom(_, _, _)
ArgMaxFrom(row, i, best) ==
    IF i > Len(row) - 1 THEN best
    ELSE ArgMaxFrom(row, i + 1, IF At(row, i) > At(row, best) THEN i ELSE best)

\* ArgMax that keeps the last index that holds the maximum
RECURSIVE ArgMaxLastFrom(_, _, _)
ArgMaxLastFrom(row, i, best) ==
    IF i > Len(row) - 1 THEN best
    ELSE ArgMaxLastFrom(row, i + 1, IF At(row, i) >= At(row, best) THEN i ELSE best)

ArgMaxLast(row) == ArgMaxLastFrom(row, 1, 0)


ArgMax(row) == ArgMaxFrom(row, 1, 0)

\* HStack that appends the number of the last class, whatever the probabilities
HStackLastClass(p) == [k \in 1 .. Len(p) |-> Append(p[k], Len(p[k]) - 1)]

\* np.hstack([preds, preds.argmax(axis=1).reshape(-1, 1)])
HStack(p) == [k \in 1 .. Len(p) |-> Append(p[k], ArgMax(p[k]))]

\* the C-order buffer of a 2-D array
RECURSIVE Buffer(_)
Buffer(m) == IF Len(m) = 0 THEN <<>> ELSE Head(m) \o Buffer(Tail(m))

\* ReshapeOk that lets a buffer with spare elements through
ReshapeOkLenient(size, R, C, K) == size >= R * C * K

\* a.reshape(R, C, K) raises ValueError unless the sizes agree
ReshapeOk(size, R, C, K) == size = R * C * K

\* Reshape3 that fills the grid in column-major (Fortran) order
Reshape3ColumnMajor(buf, R, C, K) ==
    [r \in 1 .. R |-> [c \in 1 .. C |-> [k \in 1 .. K |->
        buf[((c - 1) * R + (r - 1)) * K + k]]]]

\* a.reshape(R, C, K) of the buffer
Reshape3(buf, R, C, K) ==
    [r \in 1 .. R |-> [c \in 1 .. C |-> [k \in 1 .. K |->
        buf[((r - 1) * C + (c - 1)) * K + k]]]]

\* data[name] = (['y', 'x'], values.astype(dtype)), then its attrs
AssignVar(data, name, values, dtype, attrs) ==
    [data EXCEPT !.ml =
        [n \in DOMAIN data.ml \cup {name} |->
            IF n = name THEN [values |-> values, dtype |-> dtype, attrs |-> attrs]
            ELSE data.ml[n]]]

\* the loop over the four classes, from class number i (0-based) on
RECURSIVE WriteClasses(_, _, _)
WriteClasses(data, reshaped, i) ==
    IF i > 3 THEN data
    ELSE LET v    == ClassNames[i + 1]
             last == Len(reshaped[1][1])
             prob == [r \in 1 .. data.R |-> [c \in 1 .. data.C |-> reshaped[r][c][i + 1]]]
             cat  == [r \in 1 .. data.R |-> [c \in 1 .. data.C |->
                          IF reshaped[r][c][last] = i THEN 1 ELSE 0]]
         IN  WriteClasses(
                 AssignVar(AssignVar(data, <<"ML", v>>, prob, "float32",
                                     "Machine Learned Probability"),
                           <<"ML_c", v>>, cat, "uint8", "Machine Learned Categorical"),
                 reshaped, i + 1)

\* data[var] = data[var].astype('uint8') for the NWP categorical fields, and
\* data[v] = data[v].astype('float32') for the float64 coordinates
NarrowTypes(data) ==
    [data EXCEPT !.dtype =
        [n \in DOMAIN data.dtype |->
            IF n \in CategoricalVars /\ n \in DOMAIN data.sfc THEN "uint8"
            ELSE IF n \in data.coords /\ data.dtype[n] = "float64" THEN "float32"
            ELSE data.dtype[n]]]

\* Drop that works on the dataset passed in and hands it back
DropInPlace(data, names, id) ==
    [data EXCEPT !.coords = data.coords \ names,
                 !.dtype = [n \in DOMAIN data.dtype \ names |-> data.dtype[n]]]

\* data.drop(drop_vars): a new dataset without those coordinates
Drop(data, names, id) ==
    [data EXCEPT !.id = id,
                 !.coords = data.coords \ names,
                 !.dtype = [n \in DOMAIN data.dtype \ names |-> data.dtype[n]]]

\* grid_predictions(data, preds): the exception raised, the dataset passed in
\* as the call leaves it, and the dataset returned
GridPredictions(data, p, id) ==
    LET stacked == HStack(p.values)
        buf     == Buffer(stacked)
        last    == p.ncols + 1      \* preds.shape[-1] after the hstack
    IN  IF ~ReshapeOk(Len(buf), data.R, data.C, last)
        THEN [err |-> "ValueError", data |-> data, ret |-> NoDataset]
        ELSE LET reshaped == Reshape3(buf, data.R, data.C, last)
                 written  == NarrowTypes(WriteClasses(data, reshaped, 0))
             IN  [err |-> "", data |-> written,
                  ret |-> Drop(written, DropCoords \cap written.coords, id)]

----------------------------------------------------------------------------
(* convert_and_interpolate run by one thread *)

\* ConcatVarArrays with the blocks interleaved: height-major, variable-minor
ConcatInterleaved(var_arrays, n) ==
    LET h == IF n = 0 THEN 0 ELSE Len(var_arrays[1][1])
    IN  [i \in 1 .. n |->
            [j \in 1 .. h * Len(var_arrays) |->
                var_arrays[((j - 1) % Len(var_arrays)) + 1][i][((j - 1) \div Len(var_arrays)) + 1]]]

\* all_data = np.concatenate(var_arrays, axis=1)
ConcatVarArrays(var_arrays, n) == ConcatColumns(var_arrays, n)


ConvertAndInterpolate(data, sfc, levels, c) ==
    LET height_levels == HeightLevels(c)
        height_data   == SelectCols(data, Cols("hgt_above_sfc", levels))
        var_arrays    ==
            [vi \in 1 .. Len(variables) |->
                SurfaceOverride(
                    Interpolate(height_data,
                                SelectCols(data, Cols(variables[vi], levels)),
                                height_levels),
                    sfc.values[surface_variables[vi]])]
    IN  ConcatVarArrays(var_arrays, Len(height_data))

----------------------------------------------------------------------------
(* The run of main() *)

Raise(kind, at) ==
    /\ pc' = "failed"
    /\ err' = [kind |-> kind, at |-> at]

Init ==
    /\ pc = "loaded"
    /\ err = NoError
    /\ \E R \in 1 .. MaxRows, C \in 1 .. MaxCols, levels \in LevelLists, seed \in Seeds :
           ds = Dataset(R, C, levels, seed)
    /\ df = NoTable
    /\ surface_data = NoSurface
    /\ pressure_levels = ds.levels
    /\ cfg \in Configs
    /\ nworkers \in 1 .. MaxWorkers
    /\ sched \in {"block", "cyclic"}
    /\ nworkers = 1 => sched = "block"
    /\ cai = NoLocals
    /\ all_data = NoArray
    /\ preds = NoPreds
    /\ gridded = NoDataset
    /\ nextId = 2

\* load_data: flattened_df = df_flatten(...), surface_vars = {...flatten()}
Flatten ==
    /\ pc = "loaded"
    /\ IF ConcatFails(PressureLevData(ds, VarsP))
       THEN /\ Raise("ValueError", "df_flatten")
            /\ UNCHANGED <<df, surface_data, nextId>>
       ELSE /\ df' = DfFlatten(ds, VarsP, nextId)
            /\ surface_data' = SurfaceVars(ds, nextId + 1)
            /\ nextId' = nextId + 2
            /\ pc' = "flattened"
            /\ UNCHANGED err
    /\ UNCHANGED <<ds, pressure_levels, cfg, nworkers, sched, cai, all_data,
                   preds, gridded>>

\* the locals of convert_and_interpolate as interpolate is entered for
\* variable number vi
EnterInterpolate(height_levels, height_data, vi, var_arrays) ==
    [ stage               |-> "interpolate",
      height_levels       |-> height_levels,
      height_data         |-> height_data,
      vi                  |-> vi,
      pressure_level_data |-> SelectCols(df, Cols(variables[vi], pressure_levels)),
      arr                 |-> Zeros(Len(height_data), Len(height_levels)),
      progress            |-> [w \in 1 .. nworkers |-> 0],
      var_arrays          |-> var_arrays ]

\* convert_and_interpolate up to the first call of interpolate
ConvertStart ==
    /\ pc = "flattened"
    /\ IF cfg.interval = 0
       THEN /\ Raise("ZeroDivisionError", "convert_and_interpolate")
            /\ UNCHANGED cai
       ELSE IF MissingLabel(df.columns, Cols("hgt_above_sfc", pressure_levels))
               \/ MissingLabel(df.columns, Cols(variables[1], pressure_levels))
       THEN /\ Raise("KeyError", "convert_and_interpolate")
            /\ UNCHANGED cai
       ELSE /\ cai' = EnterInterpolate(
                          HeightLevels(cfg),
                          SelectCols(df, Cols("hgt_above_sfc", pressure_levels)),
                          1, <<>>)
            /\ pc' = "interpolating"
            /\ UNCHANGED err
    /\ UNCHANGED <<ds, df, surface_data, pressure_levels, cfg, nworkers, sched,
                   all_data, preds, gridded, nextId>>

\* one iteration of the prange loop, run by thread w
InterpolateRow(w) ==
    /\ pc = "interpolating"
    /\ LET rows == RowsOf(w, nworkers, Len(cai.arr), sched)
       IN  /\ cai.progress[w] < Len(rows)
           /\ LET i == rows[cai.progress[w] + 1]
                  x == cai.height_data[i]
                  y == cai.pressure_level_data[i]
              IN  IF InterpFails(x, y)
                  THEN /\ Raise("ValueError", "interpolate")
                       /\ UNCHANGED cai
                  ELSE /\ cai' = [cai EXCEPT
                                    !.arr = WriteRow(cai.arr, i,
                                                NpInterp(cai.height_levels, x, y)),
                                    !.progress[w] = @ + 1]
                       /\ UNCHANGED <<pc, err>>
    /\ UNCHANGED <<ds, df, surface_data, pressure_levels, cfg, nworkers, sched,
                   all_data, preds, gridded, nextId>>

\* every thread has run its rows
LoopDone ==
    \A w \in 1 .. nworkers :
        cai.progress[w] = Len(RowsOf(w, nworkers, Len(cai.arr), sched))

\* interpolate returns; the surface override; the next variable, or the
\* concatenation and the return of convert_and_interpolate
FinishVariable ==
    /\ pc = "interpolating"
    /\ LoopDone
    /\ IF Len(cai.height_levels) = 0
       THEN /\ Raise("IndexError", "convert_and_interpolate")
            /\ UNCHANGED <<cai, all_data, nextId>>
       ELSE LET sv == surface_variables[cai.vi]
                height_interp_data == SurfaceOverride(cai.arr, surface_data.values[sv])
                var_arrays == Append(cai.var_arrays, height_interp_data)
            IN  IF cai.vi < Len(variables)
                THEN /\ cai' = EnterInterpolate(cai.height_levels, cai.height_data,
                                                cai.vi + 1, var_arrays)
                     /\ UNCHANGED <<pc, err, all_data, nextId>>
                ELSE /\ all_data' = [id |-> nextId,
                                     values |-> ConcatVarArrays(var_arrays, Len(cai.arr))]
                     /\ nextId' = nextId + 1
                     /\ cai' = [cai EXCEPT !.stage = "returned",
                                           !.var_arrays = var_arrays]
                     /\ pc' = "converted"
                     /\ UNCHANGED err
    /\ UNCHANGED <<ds, df, surface_data, pressure_levels, cfg, nworkers, sched,
                   preds, gridded>>

\* transform_data and model.predict: the classifier is external; the table it
\* hands over has four class columns and any number of rows
Predict ==
    /\ pc = "converted"
    /\ \E shift \in 0 .. Len(ProbVectors) - 1,
          n \in {ds.R * ds.C - 1, ds.R * ds.C, ds.R * ds.C + 1} :
           preds' = [ id     |-> nextId,
                      ncols  |-> Len(ClassNames),
                      values |-> [k \in 1 .. n |->
                                    ProbVectors[((k - 1 + shift) % Len(ProbVectors)) + 1]] ]
    /\ nextId' = nextId + 1
    /\ pc' = "predicted"
    /\ UNCHANGED <<err, ds, df, surface_data, pressure_levels, cfg, nworkers, sched,
                   cai, all_data, gridded>>

\* gridded_preds = grid_predictions(data=ds, preds=predictions)
GridPredict ==
    /\ pc = "predicted"
    /\ LET g == GridPredictions(ds, preds, nextId)
       IN  /\ ds' = g.data
           /\ IF g.err # ""
              THEN /\ Raise(g.err, "grid_predictions")
                   /\ UNCHANGED <<gridded, nextId>>
              ELSE /\ gridded' = g.ret
                   /\ nextId' = nextId + 1
                   /\ pc' = "gridded"
                   /\ UNCHANGED err
    /\ UNCHANGED <<df, surface_data, pressure_levels, cfg, nworkers, sched, cai,
                   all_data, preds>>

Next ==
    \/ Flatten
    \/ ConvertStart
    \/ \E w \in 1 .. nworkers : InterpolateRow(w)
    \/ FinishVariable
    \/ Predict
    \/ GridPredict

Spec == Init /\ [][Next]_vars

\* df_flatten, convert_and_interpolate and grid_predictions called one after
\* the other by a caller other than main(): the dataset's variables need not
\* share one grid, and pressure_levels need not be the dataset's level axis
InitDirect ==
    /\ pc = "loaded"
    /\ err = NoError
    /\ \E R, R2 \in 1 .. MaxRows, C, C2 \in 1 .. MaxCols, levels \in LevelLists,
          seed \in {0, 1} :
           /\ ds = DatasetOn(R, C, levels, seed, R2, C2)
           /\ pressure_levels \in LevelArgs(levels)
    /\ df = NoTable
    /\ surface_data = NoSurface
    /\ cfg \in {HL(0, 3000, 1000), HL(500, 500, 250)}
    /\ nworkers = 1
    /\ sched = "block"
    /\ cai = NoLocals
    /\ all_data = NoArray
    /\ preds = NoPreds
    /\ gridded = NoDataset
    /\ nextId = 2

SpecDirect == InitDirect /\ [][Next]_vars

----------------------------------------------------------------------------
(* Properties *)

IsStrictlyIncreasing(q) == \A k \in 1 .. Len(q) - 1 : q[k] < q[k + 1]

\* a height-level configuration with an ascending, non-empty range
ValidRange(c) == c.interval > 0 /\ c.low <= c.high

\* convert_and_interpolate has built its height levels
HasHeightLevels == cai.stage # "none"

\* C1 as claimed: for interval > 0 and low <= high the height levels are
\* strictly increasing, start at low and end at high.
C1_ClosedRange ==
    (HasHeightLevels /\ ValidRange(cfg)) =>
        /\ Len(cai.height_levels) >= 1
        /\ IsStrictlyIncreasing(cai.height_levels)
        /\ cai.height_levels[1] = cfg.low
        /\ cai.height_levels[Len(cai.height_levels)] = cfg.high

\* C1 amended: for integers interval > 0 and low <= high the height levels are
\* low, low + interval, ... up to the first term that is >= high; that last
\* term is high exactly when interval divides high - low (0, 3000, 250 gives
\* 13 levels from 0 to 3000), and lies above high otherwise.
C1_SteppedRange ==
    (HasHeightLevels /\ ValidRange(cfg)) =>
        LET hl == cai.height_levels
            n  == Len(hl)
        IN  /\ n >= 1
            /\ IsStrictlyIncreasing(hl)
            /\ \A k \in 1 .. n - 1 : hl[k + 1] - hl[k] = cfg.interval
            /\ hl[1] = cfg.low
            /\ hl[n] >= cfg.high
            /\ hl[n] < cfg.high + cfg.interval
            /\ (hl[n] = cfg.high) <=> ((cfg.high - cfg.low) % cfg.interval = 0)
            /\ cfg = HL(0, 3000, 250) => (n = 13 /\ hl[1] = 0 /\ hl[n] = 3000)

C1_Witness ==
    /\ HasHeightLevels
    /\ cfg = HL(0, 3000, 250)
    /\ Len(cai.height_levels) = 13

\* the rows the threads have run in the current call of interpolate
DoneRows ==
    UNION { { RowsOf(w, nworkers, Len(cai.arr), sched)[k] : k \in 1 .. cai.progress[w] }
            : w \in 1 .. nworkers }

\* v is the piecewise-linear value at x of the points (xp, fp), clamped to the
\* end ordinates outside [xp[1], xp[Len(xp)]]
PiecewiseLinearClamp(x, xp, fp, v) ==
    LET n == Len(xp)
    IN  /\ x < xp[1] => v = Float(fp[1])
        /\ x > xp[n] => v = Float(fp[n])
        /\ (xp[1] <= x /\ x <= xp[n]) =>
              \/ \E j \in 1 .. n : xp[j] = x /\ v = Float(fp[j])
              \/ \E j \in 1 .. n - 1 :
                    /\ xp[j] < x /\ x < xp[j + 1]
                    /\ v[2] > 0
                    /\ v[1] * (xp[j + 1] - xp[j])
                         = v[2] * (fp[j] * (xp[j + 1] - xp[j])
                                   + (fp[j + 1] - fp[j]) * (x - xp[j]))

\* C2: every row of interpolate's result whose abscissa is strictly ascending
\* holds, at each target height, the piecewise-linear value clamped to the end
\* ordinates; abscissa [500, 1500, 2500] with ordinate [10, 5, 0] gives 10 at
\* 0, 7.5 at 1000 and 0 at 3000.
C2_InterpolationClamp ==
    pc = "interpolating" =>
        \A i \in DoneRows :
            LET xp == cai.height_data[i]
                fp == cai.pressure_level_data[i]
            IN  IsStrictlyIncreasing(xp) =>
                  \A k \in 1 .. Len(cai.height_levels) :
                      LET x == cai.height_levels[k]
                          v == cai.arr[i][k]
                      IN  /\ PiecewiseLinearClamp(x, xp, fp, v)
                          /\ (xp = <<500, 1500, 2500>> /\ fp = <<10, 5, 0>>) =>
                                /\ x = 0 => v = <<10, 1>>
                                /\ x = 1000 => v = <<15, 2>>
                                /\ x = 3000 => v = <<0, 1>>

C2_Witness ==
    /\ pc = "interpolating"
    /\ \E i \in DoneRows :
          /\ cai.height_data[i] = <<500, 1500, 2500>>
          /\ cai.pressure_level_data[i] = <<10, 5, 0>>
          /\ \E k0, k1, k2 \in 1 .. Len(cai.height_levels) :
                /\ cai.height_levels[k0] = 0 /\ cai.arr[i][k0] = <<10, 1>>
                /\ cai.height_levels[k1] = 1000 /\ cai.arr[i][k1] = <<15, 2>>
                /\ cai.height_levels[k2] = 3000 /\ cai.arr[i][k2] = <<0, 1>>

\* 1-based position of the lowest height among the height levels
LowestLevel(hl) == CHOOSE k \in 1 .. Len(hl) : \A m \in 1 .. Len(hl) : hl[k] <= hl[m]

\* C3: after convert_and_interpolate (on an ascending height range) the value
\* of each of t, dpt, u, v at the lowest height level of every point is the
\* point's t2m, d2m, u10, v10, whatever the interpolation gave there.
C3_SurfaceOverride ==
    (pc = "converted" /\ ValidRange(cfg)) =>
        LET h == Len(cai.height_levels)
        IN  \A i \in 1 .. Len(all_data.values), vi \in 1 .. Len(variables) :
                all_data.values[i][(vi - 1) * h + LowestLevel(cai.height_levels)]
                    = Float(surface_data.values[surface_variables[vi]][i])

\* the override replaced an interpolated value that differed from the surface
C3_Witness ==
    /\ pc = "converted"
    /\ ValidRange(cfg)
    /\ \E i \in 1 .. Len(all_data.values) :
          /\ all_data.values[i][1] = Float(surface_data.values["t2m"][i])
          /\ NpInterp(cai.height_levels, cai.height_data[i],
                      SelectCols(df, Cols("t", pressure_levels))[i])[1]
                # all_data.values[i][1]

\* flat row (1-based) of the grid position (r, c) of a grid with C columns
FlatRow(r, c, C) == (r - 1) * C + c

\* C4: grid_predictions puts the probabilities of flat row k at the grid
\* position (k div C, k mod C) (0-based), the inverse of the row-major
\* flattening of df_flatten, which puts position (r, c) in flat row r*C + c:
\* every position comes back to itself.
C4_FlattenUnflattenInverse ==
    /\ pc # "loaded" =>
          /\ Len(df.values) = ds.R * ds.C
          /\ \A r \in 1 .. ds.R, c \in 1 .. ds.C, q \in 1 .. Len(df.columns) :
                LET v == VarsP[((q - 1) \div Len(ds.levels)) + 1]
                    l == ((q - 1) % Len(ds.levels)) + 1
                IN  df.values[FlatRow(r, c, ds.C)][q] = ds.vars[v][l][r][c]
    /\ pc = "gridded" =>
          /\ \A k \in 0 .. Len(preds.values) - 1, i \in 1 .. Len(ClassNames) :
                gridded.ml[<<"ML", ClassNames[i]>>].values[(k \div ds.C) + 1][(k % ds.C) + 1]
                    = preds.values[k + 1][i]
          /\ \A r \in 1 .. ds.R, c \in 1 .. ds.C :
                /\ ((FlatRow(r, c, ds.C) - 1) \div ds.C) + 1 = r
                /\ ((FlatRow(r, c, ds.C) - 1) % ds.C) + 1 = c
                /\ \A i \in 1 .. Len(ClassNames) :
                      gridded.ml[<<"ML", ClassNames[i]>>].values[r][c]
                          = preds.values[FlatRow(r, c, ds.C)][i]

\* a 2 x 2 grid whose four prediction rows differ has been reconstructed
C4_Witness ==
    /\ pc = "gridded"
    /\ ds.R = 2 /\ ds.C = 2
    /\ \A j, k \in 1 .. 4 : j # k => preds.values[j] # preds.values[k]
    /\ gridded.ml[<<"ML", "rain">>].values[1][2] = preds.values[2][1]
    /\ gridded.ml[<<"ML", "rain">>].values[2][1] = preds.values[3][1]

RowMax(row) == CHOOSE m \in {row[i] : i \in 1 .. Len(row)} :
                   \A i \in 1 .. Len(row) : row[i] <= m

\* C5: the categorical class of a point is the arg-max of its probabilities,
\* the lowest class index winning a tie: the indicator of the first class that
\* holds the maximum is 1 and every other indicator is 0 ([50, 50, 0, 0] %
\* selects class 0).
C5_ArgMaxTieBreak ==
    pc = "gridded" =>
        \A r \in 1 .. ds.R, c \in 1 .. ds.C :
            LET row   == preds.values[FlatRow(r, c, ds.C)]
                first == CHOOSE i \in 1 .. Len(row) :
                            /\ row[i] = RowMax(row)
                            /\ \A j \in 1 .. i - 1 : row[j] < RowMax(row)
            IN  \A i \in 1 .. Len(ClassNames) :
                    gridded.ml[<<"ML_c", ClassNames[i]>>].values[r][c]
                        = IF i = first THEN 1 ELSE 0

\* a point with the probabilities [50, 50, 0, 0] % was classified as rain
C5_Witness ==
    /\ pc = "gridded"
    /\ \E r \in 1 .. ds.R, c \in 1 .. ds.C :
          /\ preds.values[FlatRow(r, c, ds.C)] = <<50, 50, 0, 0>>
          /\ gridded.ml[<<"ML_c", "rain">>].values[r][c] = 1
          /\ gridded.ml[<<"ML_c", "snow">>].values[r][c] = 0

\* C6: whatever the number of threads, the hand-out of the rows and the
\* interleaving of the iterations, row i of interpolate's result is computed
\* from row i of its inputs alone, and the results of interpolate and of
\* convert_and_interpolate are those of the run by one thread.
C6_RowOrderPreserved ==
    /\ pc = "interpolating" =>
          /\ \A i \in 1 .. Len(cai.arr) :
                cai.arr[i] = IF i \in DoneRows
                             THEN NpInterp(cai.height_levels, cai.height_data[i],
                                           cai.pressure_level_data[i])
                             ELSE [k \in 1 .. Len(cai.height_levels) |-> Float(0)]
          /\ LoopDone =>
                cai.arr = Interpolate(cai.height_data, cai.pressure_level_data,
                                      cai.height_levels)
    /\ pc = "converted" =>
          all_data.values = ConvertAndInterpolate(df, surface_data, pressure_levels, cfg)

\* two threads, and a later row written before the first one
C6_Witness ==
    /\ pc = "interpolating"
    /\ nworkers = 2
    /\ Len(cai.arr) >= 2
    /\ 1 \notin DoneRows
    /\ \E i \in DoneRows : cai.arr[i] # [k \in 1 .. Len(cai.height_levels) |-> Float(0)]

\* C7: the matrix convert_and_interpolate returns has one row per input row
\* and 4 * H columns; column j (0-based) holds variable number j div H of
\* t, dpt, u, v at height level number j mod H, the height levels ascending.
C7_ColumnBlocks ==
    pc = "converted" =>
        LET h == Len(cai.height_levels)
        IN  /\ Len(all_data.values) = Len(df.values)
            /\ ValidRange(cfg) => IsStrictlyIncreasing(cai.height_levels)
            /\ \A i \in 1 .. Len(all_data.values) :
                  /\ Len(all_data.values[i]) = Len(variables) * h
                  /\ \A j \in 0 .. Len(variables) * h - 1 :
                        LET vi  == (j \div h) + 1
                            lev == (j % h) + 1
                        IN  all_data.values[i][j + 1] =
                              IF lev = 1
                              THEN Float(surface_data.values[surface_variables[vi]][i])
                              ELSE NpInterp(cai.height_levels, cai.height_data[i],
                                       SelectCols(df, Cols(variables[vi],
                                                           pressure_levels))[i])[lev]

\* a matrix of several rows and several height levels has been returned
C7_Witness ==
    /\ pc = "converted"
    /\ Len(all_data.values) >= 2
    /\ Len(cai.height_levels) = 13
    /\ Len(all_data.values[1]) = 52

GridCalled == pc = "gridded" \/ (pc = "failed" /\ err.at = "grid_predictions")

\* C9: grid_predictions with a prediction table whose row count is not
\* rows * columns of the grid fails (the ValueError of numpy's reshape is the
\* shape error) and produces no gridded output.
C9_ShapeValidation ==
    GridCalled =>
        /\ Len(preds.values) # ds.R * ds.C =>
              /\ pc = "failed"
              /\ err = [kind |-> "ValueError", at |-> "grid_predictions"]
              /\ gridded = NoDataset
              /\ DOMAIN ds.ml = {}
        /\ Len(preds.values) = ds.R * ds.C => pc = "gridded"

\* three prediction rows against a 2 x 2 grid were refused
C9_Witness ==
    /\ pc = "failed"
    /\ err.at = "grid_predictions"
    /\ ds.R = 2 /\ ds.C = 2
    /\ Len(preds.values) = 3

\* the objects that exist have identities of their own
DistinctObjects ==
    LET objs == <<ds, df, surface_data, all_data, preds, gridded>>
    IN  \A j, k \in 1 .. Len(objs) :
            (j # k /\ objs[j].id # 0 /\ objs[k].id # 0) => objs[j].id # objs[k].id

\* df_flatten, convert_and_interpolate and the classifier leave their inputs
\* as they were
EarlyStagesPure ==
    /\ pc = "loaded" => ds' = ds
    /\ pc \in {"flattened", "interpolating"} =>
          (ds' = ds /\ df' = df /\ surface_data' = surface_data)
    /\ pc = "converted" => all_data' = all_data

Rank(xp, j) ==
    Cardinality({m \in 1 .. Len(xp) : xp[m] < xp[j] \/ (xp[m] = xp[j] /\ m < j)}) + 1

\* q carried along as xp is put in ascending order
SortedBy(xp, q) ==
    [k \in 1 .. Len(xp) |-> q[CHOOSE j \in 1 .. Len(xp) : Rank(xp, j) = k]]

HasDistinctHeights(xp) == \A j, m \in 1 .. Len(xp) : j # m => xp[j] # xp[m]

\* C11 as claimed: a row of interpolate's result, whatever the order of the
\* row's heights, holds the values interpolated from the row's (height, value)
\* pairs sorted by ascending height; a target below the smallest height holds
\* the value at the smallest height, a target above the largest height the
\* value at the largest height.
C11_SortedEquivalent ==
    pc = "interpolating" =>
        \A i \in DoneRows :
            LET xp == cai.height_data[i]
                fp == cai.pressure_level_data[i]
                sx == SortedBy(xp, xp)
                sf == SortedBy(xp, fp)
            IN  HasDistinctHeights(xp) =>
                  /\ cai.arr[i] = NpInterp(cai.height_levels, sx, sf)
                  /\ \A k \in 1 .. Len(cai.height_levels) :
                        /\ cai.height_levels[k] < sx[1] => cai.arr[i][k] = Float(sf[1])
                        /\ cai.height_levels[k] > sx[Len(sx)] =>
                              cai.arr[i][k] = Float(sf[Len(sf)])

\* convert_and_interpolate has returned a matrix
ConvertReturned == pc \in {"converted", "predicted", "gridded"}

\* C12 as claimed: convert_and_interpolate called with a height-level range
\* that is not ascending or is empty (high < low, or interval <= 0) returns no
\* result; the call ends with an exception raised in it (whatever class the
\* exception has, it stands for the configuration error).
C12_RejectsInvalidRange ==
    (~ValidRange(cfg)) =>
        /\ ~ConvertReturned
        /\ all_data = NoArray
        /\ pc = "failed" => err.at = "convert_and_interpolate"

\* the variables of varsP do not all lie on a grid of the same extents
ExtentsDisagree(d, varsP) ==
    \E j, k \in 1 .. Len(varsP) :
        LET g == d.vars[varsP[j]][1]
            h == d.vars[varsP[k]][1]
        IN  <<Len(g), Len(g[1])>> # <<Len(h), Len(h[1])>>

\* the number of pressure levels the flat profile table holds per variable
TableLevels(table) == Len(table.columns) \div Len(VarsP)

\* C13 as claimed: convert_and_interpolate called with a pressure-level list
\* whose length is not the number of pressure levels of the flat profile
\* table, longer or shorter, returns no result (the exception that ends the
\* call, whatever its class, stands for the dimension mismatch error).
C13_RejectsLevelCountMismatch ==
    (df # NoTable /\ Len(pressure_levels) # TableLevels(df)) =>
        /\ ~ConvertReturned
        /\ all_data = NoArray

\* C14 as claimed: df_flatten of a dataset whose requested variables lie on
\* grids of different (row, column) extents fails (numpy's ValueError stands
\* for the shape error) and returns no table.
C14_RejectsMixedExtents ==
    (ExtentsDisagree(ds, VarsP) /\ pc # "loaded") =>
        /\ pc = "failed"
        /\ err = [kind |-> "ValueError", at |-> "df_flatten"]
        /\ df = NoTable

\* C15: at every grid point exactly one of the indicator fields ML_crain,
\* ML_csnow, ML_cicep, ML_cfrzr written by grid_predictions is 1 and the
\* other three are 0, and the probability of the class whose indicator is 1
\* is at least the probability of every other class at that point.
C15_OneMaximalIndicator ==
    pc = "gridded" =>
        \A d \in {ds, gridded} :
            \A r \in 1 .. ds.R, c \in 1 .. ds.C :
                LET ind(i)  == d.ml[<<"ML_c", ClassNames[i]>>].values[r][c]
                    prob(i) == d.ml[<<"ML", ClassNames[i]>>].values[r][c]
                    ones    == {i \in 1 .. Len(ClassNames) : ind(i) = 1}
                IN  /\ Cardinality(ones) = 1
                    /\ \A i \in 1 .. Len(ClassNames) : i \notin ones => ind(i) = 0
                    /\ \A i \in ones, j \in 1 .. Len(ClassNames) :
                          /\ prob(i) >= prob(j)
                          /\ prob(j) = preds.values[FlatRow(r, c, ds.C)][j]

\* a point with the probabilities [10, 20, 30, 40] % carries the indicator of
\* freezing rain alone
C15_Witness ==
    /\ pc = "gridded"
    /\ \E r \in 1 .. ds.R, c \in 1 .. ds.C :
          /\ preds.values[FlatRow(r, c, ds.C)] = <<10, 20, 30, 40>>
          /\ gridded.ml[<<"ML_c", "frzr">>].values[r][c] = 1
          /\ \A v \in {"rain", "snow", "icep"} :
                gridded.ml[<<"ML_c", v>>].values[r][c] = 0

====
